---- MODULE Spec2Model ----
(***************************************************************************)
(* Model of the ESP32 firmware: the NRF24L01 sweep worker and main         *)
(* (src/src/main.rs), the noise generator (main.rs) and the scan indicator *)
(* worker with its LED flash helpers (src/src/scan.rs).                    *)
(***************************************************************************)
EXTENDS Integers, Sequences, FiniteSets, TLC

(***************************************************************************)
(* Bounds of the model.                                                    *)
(***************************************************************************)
\* completed range passes that are counted (the worker itself never stops)
MaxPasses == 7
\* largest length handed to generate_random_noise by the noise specification
MaxNoiseLen == 6

(***************************************************************************)
(* u64 arithmetic, on 8 little-endian bytes (wrapping, as the code's       *)
(* wrapping_mul / wrapping_add on u64).                                    *)
(***************************************************************************)
U64Bytes == 8

ByteOf(n, k) == (n \div (256 ^ k)) % 256

\* column k (0-based) of the schoolbook product of the bytes a with the number m
MulColumn(a, m, k) ==
    LET Term(i) == IF k - i >= 0 /\ k - i <= 3 THEN a[i + 1] * ByteOf(m, k - i) ELSE 0
        RECURSIVE Sum(_)
        Sum(i) == IF i > k THEN 0 ELSE Term(i) + Sum(i + 1)
    IN  Sum(0)

RECURSIVE MulFrom(_, _, _, _)
MulFrom(a, m, k, carry) ==
    IF k >= U64Bytes THEN <<>>
    ELSE LET total == MulColumn(a, m, k) + carry
         IN  <<total % 256>> \o MulFrom(a, m, k + 1, total \div 256)

\* u64::wrapping_mul(a, m), m < 2^32
wrapping_mul(a, m) == MulFrom(a, m, 0, 0)

RECURSIVE AddFrom(_, _, _, _)
AddFrom(a, n, k, carry) ==
    IF k >= U64Bytes THEN <<>>
    ELSE LET total == a[k + 1] + (IF k <= 3 THEN ByteOf(n, k) ELSE 0) + carry
         IN  <<total % 256>> \o AddFrom(a, n, k + 1, total \div 256)

\* u64::wrapping_add(a, n), n < 2^32
wrapping_add(a, n) == AddFrom(a, n, 0, 0)

\* (x >> 16) on u64
ShiftRight16(a) == SubSeq(a, 3, U64Bytes) \o <<0, 0>>

\* (x as u8) on u64
AsU8(a) == a[1]

LcgMultiplier == 1103515245
LcgIncrement == 12345

LcgStep(seed) == wrapping_add(wrapping_mul(seed, LcgMultiplier), LcgIncrement)

\* the low byte of the seed, not shifted
NoiseByteUnshifted(seed) == AsU8(seed)

\* (seed >> 16) as u8
NoiseByte(seed) == AsU8(ShiftRight16(seed))

RECURSIVE NoiseLoop(_, _, _)
NoiseLoop(remaining, seed, noise) ==
    IF remaining = 0 THEN noise
    ELSE LET s == LcgStep(seed)
         IN  NoiseLoop(remaining - 1, s, Append(noise, NoiseByte(s)))

\* the loop run once more than length (0..=length)
generate_random_noise_inclusive(length, timestamp) == NoiseLoop(length + 1, timestamp, <<>>)

\* generate_random_noise(length), with the clock reading it seeds from
generate_random_noise(length, timestamp) == NoiseLoop(length, timestamp, <<>>)

\* clock readings (nanoseconds since the epoch, as u64): 0 is what
\* unwrap_or_default() gives for a clock before the epoch
Timestamps ==
    { <<0, 0, 0, 0, 0, 0, 0, 0>>,
      <<1, 0, 0, 0, 0, 0, 0, 0>>,
      <<255, 255, 255, 255, 255, 255, 255, 255>>,
      <<0, 0, 1, 0, 0, 0, 0, 0>>,
      <<21, 205, 91, 7, 0, 0, 0, 0>>,
      <<0, 160, 145, 184, 32, 194, 116, 24>>,
      <<1, 160, 145, 184, 32, 194, 116, 24>>,
      <<177, 104, 222, 58, 177, 104, 222, 58>> }

(***************************************************************************)
(* State.                                                                  *)
(***************************************************************************)
VARIABLES
    \* main (main.rs 229-291)
    main_pc,          \* main's position
    handlers,         \* the routes registered with the HTTP server
    \* the radio worker (main.rs 76-223)
    radio_pc,         \* the worker's position
    table,            \* frequency_ranges
    range_index,      \* range_index
    start_channel,    \* start_channel of the pass
    end_channel,      \* end_channel of the pass
    channel,          \* the for loop's channel
    noise_data,       \* noise_data of the last write
    \* what the radio worker has done so far
    init_log,         \* the initialization calls made, with their results
    passes,           \* completed range passes, counted up to MaxPasses
    programmed,       \* channels handed to set_channel in this pass
    gap,              \* sleeps since the last set_channel call
    fail_ch,          \* channel of a failure since then, or NoChannel
    pass_ok,          \* no driver call of this pass has failed
    prev_fail,        \* fail_ch as it was at the last set_channel call
    prev_gap,         \* gap as it was at the last set_channel call
    hop,              \* the channel attempt under way: set_channel's result, payloads
                      \* generated, writes attempted, payload handed to write
    prev_set_ok,      \* whether the set_channel call before the last one succeeded
    \* the scan indicator worker (scan.rs 118-225) and the LED channels
    scan_pc,          \* the worker's position
    scan_result,      \* what the last perform_wifi_scan() returned
    flash_fn,         \* the flash helper running
    duration_ms,      \* its duration_ms
    flash_i,          \* its loop variable i
    led_args,         \* <<red, green>> of the set_led_color call under way
    after_led,        \* where the helper goes on after set_led_color
    red_duty,         \* duty of the red channel
    green_duty,       \* duty of the green channel
    poisoned,         \* the channels whose mutex is poisoned
    trace,            \* set_led_color calls and sleeps since the last scan
    \* one call of generate_random_noise (main.rs 52-66)
    gen_length,       \* length
    gen_timestamp,    \* the clock reading
    gen_result,       \* the Vec returned
    gen_pc,           \* "call" before the call, "returned" after it
    \* the LED channels shared by the two writers (main.rs 260-262)
    blue_duty,        \* duty of the blue channel
    holders,          \* per channel, the writers holding its MutexGuard
    src,              \* per channel, the writer whose set_duty last succeeded on it
    touched,          \* per writer, the channels it has called set_duty on
    ind_ok,           \* per channel, whether set_led_color's last write of it took effect
    \* the POST /color handler (main.rs 273-284)
    h_pc,             \* the handler's position
    h_body,           \* the request body, as bytes
    h_color,          \* the Color parsed, <<r, g, b>>
    h_response,       \* what the last request was answered with
    h_before,         \* <<red, green, blue>> duties when the request arrived
    \* scan_wifi_with_resources (scan.rs 31-116)
    live_pc,          \* the function's position
    live_networks,    \* signal strengths of the networks of the last Ok scan, as logged
    live_scan,        \* result of the last wifi.scan() call
    live_since,       \* wifi.start() calls and sleeps since the last wifi.scan() call
    live_before,      \* live_since as it was at the last wifi.scan() call
    live_scans        \* wifi.scan() calls made, counted up to MaxScans

mainVars == <<main_pc, handlers>>
radioVars == <<radio_pc, table, range_index, start_channel, end_channel, channel,
               noise_data, init_log, passes, programmed, gap, fail_ch, pass_ok,
               prev_fail, prev_gap, hop, prev_set_ok>>
scanVars == <<scan_pc, scan_result, flash_fn, duration_ms, flash_i, led_args, after_led,
              red_duty, green_duty, poisoned, trace>>
genVars == <<gen_length, gen_timestamp, gen_result, gen_pc>>
ledVars == <<blue_duty, holders, src, touched, ind_ok>>
handlerVars == <<h_pc, h_body, h_color, h_response, h_before>>
liveVars == <<live_pc, live_networks, live_scan, live_since, live_before, live_scans>>
vars == <<mainVars, radioVars, scanVars, genVars, ledVars, handlerVars, liveVars>>
notRadio == <<mainVars, scanVars, genVars, ledVars, handlerVars, liveVars>>

NoChannel == 0 - 1

\* the LED channels and the threads that write them
Channels == {"red", "green", "blue"}
Writers == {"indicator", "handler"}

\* no set_duty call has succeeded on the channel yet
NoWrite == "none"

(***************************************************************************)
(* The radio worker: setup_nrf24l01_and_send_noise's thread.               *)
(***************************************************************************)
\* the table of main.rs 179-185
frequency_ranges == << <<2, 22>>, <<7, 27>>, <<12, 32>>, <<17, 37>>, <<22, 42>> >>

\* the one-range table [(2,22)] of the single-range sweep scenario
single_range == << <<2, 22>> >>

\* main has not panicked and no panic has aborted the process: either ends every
\* thread
ProcessAlive == main_pc # "panicked" /\ h_pc # "aborted"

RadioAt(pc) == ProcessAlive /\ radio_pc = pc

\* one initialization call: it returns Ok and the worker goes on, or Err and the
\* worker logs and returns
InitCall(pc, name, next) ==
    /\ RadioAt(pc)
    /\ \E ok \in BOOLEAN :
         /\ init_log' = Append(init_log, <<name, IF ok THEN "ok" ELSE "err">>)
         /\ radio_pc' = IF ok THEN next ELSE "terminated"
    /\ UNCHANGED <<table, range_index, start_channel, end_channel, channel, noise_data,
                   passes, programmed, gap, fail_ch, pass_ok, prev_fail, prev_gap,
                   hop, prev_set_ok>>
    /\ UNCHANGED notRadio

SpiDriverNew == InitCall("spi", "SpiDriver::new", "spi_device")

SpiDeviceDriverNew == InitCall("spi_device", "SpiDeviceDriver::new", "ce_pin")

CePinOutput == InitCall("ce_pin", "PinDriver::output", "init_sleep")

\* thread::sleep(100 ms) before the transceiver is created
InitSleep ==
    /\ RadioAt("init_sleep")
    /\ radio_pc' = "nrf_new"
    /\ UNCHANGED <<table, range_index, start_channel, end_channel, channel, noise_data,
                   init_log, passes, programmed, gap, fail_ch, pass_ok, prev_fail, prev_gap,
                   hop, prev_set_ok>>
    /\ UNCHANGED notRadio

Nrf24l01New == InitCall("nrf_new", "Nrf24l01::new", "is_connected")

\* is_connected() taken as passed whenever it returns Ok
AfterIsConnectedAnyOk(answer) ==
    IF answer \in {"ok_true", "ok_false"} THEN "open_writing_pipe" ELSE "terminated"

\* what follows each answer of is_connected()
AfterIsConnected(answer) == IF answer = "ok_true" THEN "open_writing_pipe" ELSE "terminated"

IsConnected ==
    /\ RadioAt("is_connected")
    /\ \E answer \in {"ok_true", "ok_false", "err"} :
         /\ init_log' = Append(init_log, <<"is_connected", answer>>)
         /\ radio_pc' = AfterIsConnected(answer)
    /\ UNCHANGED <<table, range_index, start_channel, end_channel, channel, noise_data,
                   passes, programmed, gap, fail_ch, pass_ok, prev_fail, prev_gap,
                   hop, prev_set_ok>>
    /\ UNCHANGED notRadio

OpenWritingPipe == InitCall("open_writing_pipe", "open_writing_pipe", "stop_listening")

\* stop_listening(); on success the table is built and range_index = 0
StopListening == InitCall("stop_listening", "stop_listening", "range_start")

\* the range taken as start_channel..end_channel, end excluded
InRangeExclusive(c, s, e) == s <= c /\ c < e

\* channel is within start_channel..=end_channel
InRange(c, s, e) == s <= c /\ c <= e

\* (channel as u8)
ChannelAsU8(c) == c % 256

\* the cursor advanced without wrapping
NextRangeIndexNoWrap(ri, tbl) == ri + 1

\* the cursor advanced by two entries
NextRangeIndexSkip(ri, tbl) == (ri + 2) % Len(tbl)

\* (range_index + 1) % frequency_ranges.len()
NextRangeIndex(ri, tbl) == (ri + 1) % Len(tbl)

\* where the for loop goes after the iteration of channel c
AfterIteration(c) ==
    IF InRange(c + 1, start_channel, end_channel) THEN "set_channel" ELSE "advance"

\* loop { let (start_channel, end_channel) = frequency_ranges[range_index]; for ... }
RangeStart ==
    /\ RadioAt("range_start")
    /\ LET r == table[range_index + 1]
       IN  /\ start_channel' = r[1]
           /\ end_channel' = r[2]
           /\ channel' = r[1]
           /\ radio_pc' = IF InRange(r[1], r[1], r[2]) THEN "set_channel" ELSE "advance"
    /\ programmed' = <<>>
    /\ fail_ch' = NoChannel
    /\ prev_fail' = NoChannel
    /\ pass_ok' = TRUE
    /\ UNCHANGED <<table, range_index, noise_data, init_log, passes, gap, prev_gap,
                   hop, prev_set_ok>>
    /\ UNCHANGED notRadio

\* a failed set_channel leaving the for loop (break)
OnSetChannelErrBreak(c) == [pc |-> "advance", ch |-> c]

\* a failed set_channel falling through to the 50 ms sleep of its iteration
OnSetChannelErrSleep(c) == [pc |-> "sleep50", ch |-> c]

\* what a failed set_channel does to the loop: continue
OnSetChannelErr(c) == [pc |-> AfterIteration(c), ch |-> c + 1]

\* no payload generated, no write attempted
NoHop == [set_ok |-> FALSE, gens |-> 0, writes |-> 0, written |-> <<>>]

\* nrf24.set_channel(channel as u8); on Err the loop continues with the next channel
SetChannel ==
    /\ RadioAt("set_channel")
    /\ programmed' = Append(programmed, ChannelAsU8(channel))
    /\ prev_fail' = fail_ch
    /\ prev_gap' = gap
    /\ prev_set_ok' = hop.set_ok
    /\ gap' = <<>>
    /\ \E ok \in BOOLEAN :
         IF ok
         THEN /\ radio_pc' = "write"
              /\ fail_ch' = NoChannel
              /\ hop' = [NoHop EXCEPT !.set_ok = TRUE]
              /\ UNCHANGED <<channel, pass_ok>>
         ELSE /\ radio_pc' = OnSetChannelErr(channel).pc
              /\ channel' = OnSetChannelErr(channel).ch
              /\ fail_ch' = channel
              /\ pass_ok' = FALSE
              /\ hop' = NoHop
    /\ UNCHANGED <<table, range_index, start_channel, end_channel, noise_data,
                   init_log, passes>>
    /\ UNCHANGED notRadio

\* the clock readings the sweep's payloads are seeded from
SweepTimestamps ==
    { <<0, 160, 145, 184, 32, 194, 116, 24>>, <<1, 160, 145, 184, 32, 194, 116, 24>> }

PayloadSize == 32

SweepPayloads == [t \in SweepTimestamps |-> generate_random_noise(PayloadSize, t)]

\* the payload of the channel before handed to write
PayloadWrittenStale(fresh, old) == old

\* nrf24.write(&mut delay, &noise_data): the payload just generated
PayloadWritten(fresh, old) == fresh

\* let noise_data = generate_random_noise(32); nrf24.write(&mut delay, &noise_data):
\* Ok or Err, each only logged
Write ==
    /\ RadioAt("write")
    /\ \E t \in SweepTimestamps : noise_data' = SweepPayloads[t]
    /\ hop' = [hop EXCEPT !.gens = @ + 1, !.writes = @ + 1,
                          !.written = PayloadWritten(noise_data', noise_data)]
    /\ \E ok \in BOOLEAN :
         /\ fail_ch' = IF ok THEN fail_ch ELSE channel
         /\ pass_ok' = (pass_ok /\ ok)
    /\ radio_pc' = "sleep50"
    /\ UNCHANGED <<table, range_index, start_channel, end_channel, channel, init_log,
                   passes, programmed, gap, prev_fail, prev_gap, prev_set_ok>>
    /\ UNCHANGED notRadio

HopSleepMs == 50
RangeSleepMs == 500

\* thread::sleep(50 ms), then the next iteration
Sleep50 ==
    /\ RadioAt("sleep50")
    /\ gap' = Append(gap, HopSleepMs)
    /\ radio_pc' = AfterIteration(channel)
    /\ channel' = channel + 1
    /\ UNCHANGED <<table, range_index, start_channel, end_channel, noise_data, init_log,
                   passes, programmed, fail_ch, pass_ok, prev_fail, prev_gap,
                   hop, prev_set_ok>>
    /\ UNCHANGED notRadio

\* range_index = (range_index + 1) % frequency_ranges.len()
AdvanceRange ==
    /\ RadioAt("advance")
    /\ range_index' = NextRangeIndex(range_index, table)
    /\ passes' = IF passes < MaxPasses THEN passes + 1 ELSE passes
    /\ radio_pc' = "sleep500"
    /\ UNCHANGED <<table, start_channel, end_channel, channel, noise_data, init_log,
                   programmed, gap, fail_ch, pass_ok, prev_fail, prev_gap,
                   hop, prev_set_ok>>
    /\ UNCHANGED notRadio

\* thread::sleep(500 ms), then the next pass
Sleep500 ==
    /\ RadioAt("sleep500")
    /\ gap' = Append(gap, RangeSleepMs)
    /\ radio_pc' = "range_start"
    /\ UNCHANGED <<table, range_index, start_channel, end_channel, channel, noise_data,
                   init_log, passes, programmed, fail_ch, pass_ok, prev_fail, prev_gap,
                   hop, prev_set_ok>>
    /\ UNCHANGED notRadio

RadioInitNext ==
    \/ SpiDriverNew \/ SpiDeviceDriverNew \/ CePinOutput \/ InitSleep \/ Nrf24l01New
    \/ IsConnected \/ OpenWritingPipe \/ StopListening

SweepNext == RangeStart \/ SetChannel \/ Write \/ Sleep50 \/ AdvanceRange \/ Sleep500

RadioNext == RadioInitNext \/ SweepNext

(***************************************************************************)
(* main.                                                                   *)
(***************************************************************************)
notMain == <<radioVars, scanVars, genVars, ledVars, handlerVars, liveVars>>

\* one step of main that unwraps a driver result: it goes on or panics
MainUnwrap(pc, next) ==
    /\ main_pc = pc
    /\ \E ok \in BOOLEAN : main_pc' = IF ok THEN next ELSE "panicked"
    /\ UNCHANGED handlers
    /\ UNCHANGED notMain

\* Peripherals::take().unwrap(), EspSystemEventLoop::take().unwrap(),
\* EspTaskTimerService::new().unwrap()
TakePeripherals == MainUnwrap("start", "wifi")

\* wifi(...).unwrap()
WifiConnect == MainUnwrap("wifi", "setup_nrf")

\* setup_nrf24l01_and_send_noise(...).unwrap(): the thread is spawned and Ok(())
\* is returned whatever the thread does; thread::spawn itself panics when no
\* thread can be created
SetupNrf ==
    /\ main_pc = "setup_nrf"
    /\ radio_pc = "not_spawned"
    /\ \E spawned \in BOOLEAN :
         /\ radio_pc' = IF spawned THEN "spi" ELSE "not_spawned"
         /\ main_pc' = IF spawned THEN "server_new" ELSE "panicked"
    /\ UNCHANGED <<table, range_index, start_channel, end_channel, channel, noise_data,
                   init_log, passes, programmed, gap, fail_ch, pass_ok, prev_fail,
                   prev_gap, hop, prev_set_ok>>
    /\ UNCHANGED <<handlers, scanVars, genVars, ledVars, handlerVars, liveVars>>

\* EspHttpServer::new(...).unwrap()
ServerNew == MainUnwrap("server_new", "led_init")

\* LedcTimerDriver::new(...).unwrap() and the three LedcDriver::new(...).unwrap()
LedInit == MainUnwrap("led_init", "register_root")

\* server.fn_handler(route, ...).unwrap()
Register(pc, route, next) ==
    /\ main_pc = pc
    /\ \E ok \in BOOLEAN :
         /\ main_pc' = IF ok THEN next ELSE "panicked"
         /\ handlers' = IF ok THEN handlers \cup {route} ELSE handlers
    /\ UNCHANGED notMain

RegisterRoot == Register("register_root", "GET /", "register_color")

RegisterColor == Register("register_color", "POST /color", "heartbeat")

\* loop { sleep(1 s) }
Heartbeat ==
    /\ main_pc = "heartbeat"
    /\ UNCHANGED vars

MainNext ==
    \/ TakePeripherals \/ WifiConnect \/ SetupNrf \/ ServerNew \/ LedInit
    \/ RegisterRoot \/ RegisterColor \/ Heartbeat

(***************************************************************************)
(* The scan indicator worker and the flash helpers (scan.rs).              *)
(***************************************************************************)
notScan == <<mainVars, radioVars, genVars, ledVars, handlerVars, liveVars>>

ScanAt(pc) == ProcessAlive /\ scan_pc = pc

\* a scan that can also return Err
perform_wifi_scan_fallible ==
    { [tag |-> "ok",
       networks |-> << <<"Network-1", -45>>, <<"Network-2", -67>>, <<"Wokwi-GUEST", -30>> >>],
      [tag |-> "err", networks |-> <<>>] }

\* perform_wifi_scan() as written: always the three placeholder networks
perform_wifi_scan ==
    { [tag |-> "ok",
       networks |-> << <<"Network-1", -45>>, <<"Network-2", -67>>, <<"Wokwi-GUEST", -30>> >>] }

\* a scan primitive that may also fail
ScanPrimitive == perform_wifi_scan \cup { [tag |-> "err", networks |-> <<>>] }

\* let flash_interval = ...
flash_interval(fn) == IF fn = "flash_red_waiting" THEN 1000 ELSE 100

\* a helper rounding the number of flashes up
total_flashes_ceil(fn, d) == (d + flash_interval(fn) - 1) \div flash_interval(fn)

\* let total_flashes = duration_ms / flash_interval
total_flashes(fn, d) == d \div flash_interval(fn)

\* every helper flashing red
ActiveColorAllRed(fn) == <<255, 0>>

\* the <<red, green>> a helper sets on an even step
ActiveColor(fn) == IF fn = "flash_green" THEN <<0, 255>> ELSE <<255, 0>>

\* a helper leaving its colour on after the loop
AfterLoopColorActive(fn) == ActiveColor(fn)

\* after the loop: set_led_color(red_channel, green_channel, 0, 0)
AfterLoopColor(fn) == <<0, 0>>

\* if i % 2 == 0 { on } else { off }
ToggleColor(fn, i) == IF i % 2 = 0 THEN ActiveColor(fn) ELSE <<0, 0>>

\* every scan outcome answered by the green flash
OnScanResultAlwaysGreen(tag) == "flash_green"

\* match perform_wifi_scan() { Ok => flash_green, Err => flash_red }
OnScanResult(tag) == IF tag = "ok" THEN "flash_green" ELSE "flash_red"

ResultFlashMs == 500
WaitingMs == 10000

SetEv(c) == <<"set", c[1], c[2]>>
SleepEv(ms) == <<"sleep", ms, 0>>

\* a call of one of the flash helpers
CallFlash(fn, d) ==
    /\ flash_fn' = fn
    /\ duration_ms' = d
    /\ flash_i' = 0
    /\ scan_pc' = "flash_loop"

\* match perform_wifi_scan() { ... }: the outcome is logged and answered by a flash
PerformScan(results) ==
    /\ ScanAt("scan")
    /\ \E r \in results :
         /\ scan_result' = r
         /\ CallFlash(OnScanResult(r.tag), ResultFlashMs)
    /\ trace' = <<>>
    /\ UNCHANGED <<led_args, after_led, red_duty, green_duty, poisoned>>
    /\ UNCHANGED notScan

\* the loop head of a helper: the next step's set_led_color call, or after the
\* loop the closing set_led_color(0, 0)
FlashLoop ==
    /\ ScanAt("flash_loop")
    /\ LET more == flash_i < total_flashes(flash_fn, duration_ms)
           c == IF more THEN ToggleColor(flash_fn, flash_i) ELSE AfterLoopColor(flash_fn)
       IN  /\ led_args' = c
           /\ after_led' = IF more THEN "flash_sleep" ELSE "flash_return"
           /\ trace' = Append(trace, SetEv(c))
    /\ scan_pc' = "led_red"
    /\ UNCHANGED <<scan_result, flash_fn, duration_ms, flash_i, red_duty, green_duty,
                   poisoned>>
    /\ UNCHANGED notScan

\* the guard kept after the statement that took it
KeepGuard(h, ch, w) == h

\* the MutexGuard of ch, a temporary of the statement, dropped at its end
DropGuard(h, ch, w) == [h EXCEPT ![ch] = @ \ {w}]

\* Mutex::lock() returning to w with the guard (while another guard is alive it
\* blocks)
TakeGuard(h, ch, w) == [h EXCEPT ![ch] = @ \cup {w}]

\* red_channel.lock(): Err when the mutex is poisoned, and then the if let body is
\* skipped
LockRed ==
    /\ ScanAt("led_red")
    /\ holders["red"] = {}
    /\ IF "red" \in poisoned
       THEN /\ scan_pc' = "led_green"
            /\ ind_ok' = [ind_ok EXCEPT !["red"] = FALSE]
            /\ UNCHANGED holders
       ELSE /\ scan_pc' = "red_locked"
            /\ holders' = TakeGuard(holders, "red", "indicator")
            /\ UNCHANGED ind_ok
    /\ UNCHANGED <<scan_result, flash_fn, duration_ms, flash_i, led_args, after_led,
                   red_duty, green_duty, poisoned, trace>>
    /\ UNCHANGED <<blue_duty, src, touched>>
    /\ UNCHANGED <<mainVars, radioVars, genVars, handlerVars, liveVars>>

\* let _ = red_led.set_duty(red as u32); the guard is dropped at the closing brace
SetRedDuty ==
    /\ ScanAt("red_locked")
    /\ \E ok \in BOOLEAN :
         /\ red_duty' = IF ok THEN led_args[1] ELSE red_duty
         /\ src' = IF ok THEN [src EXCEPT !["red"] = "indicator"]
                         ELSE src
         /\ ind_ok' = [ind_ok EXCEPT !["red"] = ok]
    /\ touched' = [touched EXCEPT !["indicator"] = @ \cup {"red"}]
    /\ holders' = DropGuard(holders, "red", "indicator")
    /\ scan_pc' = "led_green"
    /\ UNCHANGED <<scan_result, flash_fn, duration_ms, flash_i, led_args, after_led,
                   green_duty, poisoned, trace>>
    /\ UNCHANGED blue_duty
    /\ UNCHANGED <<mainVars, radioVars, genVars, handlerVars, liveVars>>

\* green_channel.lock(): Err when the mutex is poisoned
LockGreen ==
    /\ ScanAt("led_green")
    /\ holders["green"] = {}
    /\ IF "green" \in poisoned
       THEN /\ scan_pc' = after_led
            /\ ind_ok' = [ind_ok EXCEPT !["green"] = FALSE]
            /\ UNCHANGED holders
       ELSE /\ scan_pc' = "green_locked"
            /\ holders' = TakeGuard(holders, "green", "indicator")
            /\ UNCHANGED ind_ok
    /\ UNCHANGED <<scan_result, flash_fn, duration_ms, flash_i, led_args, after_led,
                   red_duty, green_duty, poisoned, trace>>
    /\ UNCHANGED <<blue_duty, src, touched>>
    /\ UNCHANGED <<mainVars, radioVars, genVars, handlerVars, liveVars>>

\* let _ = green_led.set_duty(green as u32); set_led_color returns
SetGreenDuty ==
    /\ ScanAt("green_locked")
    /\ \E ok \in BOOLEAN :
         /\ green_duty' = IF ok THEN led_args[2] ELSE green_duty
         /\ src' = IF ok THEN [src EXCEPT !["green"] = "indicator"]
                         ELSE src
         /\ ind_ok' = [ind_ok EXCEPT !["green"] = ok]
    /\ touched' = [touched EXCEPT !["indicator"] = @ \cup {"green"}]
    /\ holders' = DropGuard(holders, "green", "indicator")
    /\ scan_pc' = after_led
    /\ UNCHANGED <<scan_result, flash_fn, duration_ms, flash_i, led_args, after_led,
                   red_duty, poisoned, trace>>
    /\ UNCHANGED blue_duty
    /\ UNCHANGED <<mainVars, radioVars, genVars, handlerVars, liveVars>>

\* thread::sleep(flash_interval), then the next i
FlashSleep ==
    /\ ScanAt("flash_sleep")
    /\ trace' = Append(trace, SleepEv(flash_interval(flash_fn)))
    /\ flash_i' = flash_i + 1
    /\ scan_pc' = "flash_loop"
    /\ UNCHANGED <<scan_result, flash_fn, duration_ms, led_args, after_led, red_duty,
                   green_duty, poisoned>>
    /\ UNCHANGED notScan

\* flash_green / flash_red has returned: flash_red_waiting(.., 10000)
AfterResultFlash ==
    /\ ScanAt("flash_return")
    /\ flash_fn \in {"flash_green", "flash_red"}
    /\ CallFlash("flash_red_waiting", WaitingMs)
    /\ UNCHANGED <<scan_result, led_args, after_led, red_duty, green_duty, poisoned,
                   trace>>
    /\ UNCHANGED notScan

\* flash_red_waiting has returned: the next iteration of the worker's loop
AfterWaiting ==
    /\ ScanAt("flash_return")
    /\ flash_fn = "flash_red_waiting"
    /\ scan_pc' = "scan"
    /\ UNCHANGED <<scan_result, flash_fn, duration_ms, flash_i, led_args, after_led,
                   red_duty, green_duty, poisoned, trace>>
    /\ UNCHANGED notScan

FlashNext == FlashLoop \/ LockRed \/ SetRedDuty \/ LockGreen \/ SetGreenDuty \/ FlashSleep

\* the scan of the code
PerformWifiScan == PerformScan(perform_wifi_scan)

\* a scan that may fail
PerformAnyScan == PerformScan(ScanPrimitive)

IndicatorNext == PerformWifiScan \/ FlashNext \/ AfterResultFlash \/ AfterWaiting

IndicatorAnyScanNext == PerformAnyScan \/ FlashNext \/ AfterResultFlash \/ AfterWaiting

(***************************************************************************)
(* Specifications.                                                         *)
(***************************************************************************)
(* The POST /color handler (main.rs 273-284) and Color::try_from           *)
(* (main.rs 40-50).                                                        *)
(***************************************************************************)
\* a UTF-8 continuation byte, 10xxxxxx
IsContinuation(b) == b >= 128 /\ b <= 191

\* std::str::from_utf8: whether the bytes from position i on are well-formed UTF-8
RECURSIVE Utf8From(_, _)
Utf8From(s, i) ==
    LET n == Len(s)
        At(k) == IF k <= n THEN s[k] ELSE 0
        Cont(k) == k <= n /\ IsContinuation(s[k])
        In(k, lo, hi) == k <= n /\ s[k] >= lo /\ s[k] <= hi
        b == At(i)
    IN  IF i > n THEN TRUE
        ELSE IF b < 128 THEN Utf8From(s, i + 1)
        ELSE IF b >= 194 /\ b <= 223 THEN Cont(i + 1) /\ Utf8From(s, i + 2)
        ELSE IF b = 224 THEN In(i + 1, 160, 191) /\ Cont(i + 2) /\ Utf8From(s, i + 3)
        ELSE IF b = 237 THEN In(i + 1, 128, 159) /\ Cont(i + 2) /\ Utf8From(s, i + 3)
        ELSE IF b >= 225 /\ b <= 239 THEN Cont(i + 1) /\ Cont(i + 2) /\ Utf8From(s, i + 3)
        ELSE IF b = 240
             THEN In(i + 1, 144, 191) /\ Cont(i + 2) /\ Cont(i + 3) /\ Utf8From(s, i + 4)
        ELSE IF b >= 241 /\ b <= 243
             THEN Cont(i + 1) /\ Cont(i + 2) /\ Cont(i + 3) /\ Utf8From(s, i + 4)
        ELSE IF b = 244
             THEN In(i + 1, 128, 143) /\ Cont(i + 2) /\ Cont(i + 3) /\ Utf8From(s, i + 4)
        ELSE FALSE

from_utf8(s) == Utf8From(s, 1)

\* str::is_char_boundary(idx), idx counted from 0
is_char_boundary(s, idx) ==
    \/ idx = 0
    \/ idx = Len(s)
    \/ idx < Len(s) /\ ~IsContinuation(s[idx + 1])

\* value.get(a..b): None unless a and b are char boundaries
get(s, a, b) ==
    IF a <= b /\ is_char_boundary(s, a) /\ is_char_boundary(s, b)
    THEN [some |-> TRUE, str |-> SubSeq(s, a + 1, b)]
    ELSE [some |-> FALSE, str |-> <<>>]

\* char::to_digit(16) of an ASCII byte, -1 for no digit
to_digit(b) ==
    IF b >= 48 /\ b <= 57 THEN b - 48
    ELSE IF b >= 97 /\ b <= 102 THEN b - 87
    ELSE IF b >= 65 /\ b <= 70 THEN b - 55
    ELSE 0 - 1

RECURSIVE Accumulate(_, _, _)
Accumulate(digits, k, acc) ==
    IF k > Len(digits) THEN [ok |-> TRUE, val |-> acc]
    ELSE LET d == to_digit(digits[k])
             v == acc * 16 + d
         IN  IF d < 0 \/ v > 255 THEN [ok |-> FALSE, val |-> 0]
             ELSE Accumulate(digits, k + 1, v)

\* u8::from_str_radix(src, 16): empty and a lone sign are errors, a leading '+' is
\* skipped, a '-' is an invalid digit of an unsigned type
from_str_radix(str) ==
    IF str = <<>> THEN [ok |-> FALSE, val |-> 0]
    ELSE IF Len(str) = 1 /\ str[1] \in {43, 45} THEN [ok |-> FALSE, val |-> 0]
    ELSE IF str[1] = 43 THEN Accumulate(Tail(str), 1, 0)
    ELSE Accumulate(str, 1, 0)

\* one field of Color: u8::from_str_radix(value.get(a..b).unwrap(), 16)?
ColorField(value, a, b) ==
    LET sub == get(value, a, b)
        n == from_str_radix(sub.str)
    IN  IF ~sub.some THEN [tag |-> "panic", val |-> 0]
        ELSE IF ~n.ok THEN [tag |-> "err", val |-> 0]
        ELSE [tag |-> "ok", val |-> n.val]

\* Color::try_from(value): r, g, b in this order, the first failure ends it
try_from(value) ==
    LET r == ColorField(value, 0, 2)
        g == ColorField(value, 2, 4)
        b == ColorField(value, 4, 6)
    IN  IF r.tag # "ok" THEN [tag |-> r.tag, color |-> <<>>]
        ELSE IF g.tag # "ok" THEN [tag |-> g.tag, color |-> <<>>]
        ELSE IF b.tag # "ok" THEN [tag |-> b.tag, color |-> <<>>]
        ELSE [tag |-> "ok", color |-> <<r.val, g.val, b.val>>]

BufferSize == 6

\* request bodies
\* "ff8000"
BodyOrange == <<102, 102, 56, 48, 48, 48>>
\* "0A1b2C"
BodyMixedCase == <<48, 65, 49, 98, 50, 67>>
\* "+f+f+f"
BodyPlusSigns == <<43, 102, 43, 102, 43, 102>>
\* "00+100"
BodyPlusGreen == <<48, 48, 43, 49, 48, 48>>
\* "a", U+00E9 (two bytes), "bcd"
BodyTwoByteChar == <<97, 195, 169, 98, 99, 100>>
\* U+00E9 (two bytes), "0000"
BodyLeadingTwoByteChar == <<195, 169, 48, 48, 48, 48>>
\* "gg0000"
BodyNotHex == <<103, 103, 48, 48, 48, 48>>
\* "00zz00"
BodyNotHexGreen == <<48, 48, 122, 122, 48, 48>>
\* "-1-1-1"
BodyMinusSigns == <<45, 49, 45, 49, 45, 49>>
\* "0000+ "
BodyLonePlus == <<48, 48, 48, 48, 43, 32>>
\* the byte 0xFF, then "00000"
BodyNotUtf8 == <<255, 48, 48, 48, 48, 48>>
\* "fff", three bytes only
BodyShort == <<102, 102, 102>>
\* "10203040", eight bytes
BodyLong == <<49, 48, 50, 48, 51, 48, 52, 48>>

ColorBodies ==
    { BodyOrange, BodyMixedCase, BodyPlusSigns, BodyPlusGreen,
      BodyTwoByteChar, BodyLeadingTwoByteChar, BodyNotHex, BodyNotHexGreen,
      BodyMinusSigns, BodyLonePlus, BodyNotUtf8, BodyShort,
      BodyLong }

\* the bodies of the requests sent while the indicator worker runs
LedBodies == { BodyOrange }

notHandler == <<mainVars, radioVars, genVars, liveVars>>
scanLocal == <<scan_pc, scan_result, flash_fn, duration_ms, flash_i, led_args, after_led,
               trace>>

HandlerAt(pc) == ProcessAlive /\ h_pc = pc

\* a request POST /color arrives and the handler is called with it
Receive(bodies) ==
    /\ HandlerAt("idle")
    /\ "POST /color" \in handlers
    /\ \E body \in bodies : h_body' = body
    /\ h_pc' = "read"
    /\ h_color' = <<>>
    /\ h_response' = "pending"
    /\ h_before' = <<red_duty, green_duty, blue_duty>>
    /\ UNCHANGED <<notHandler, scanVars, ledVars>>

\* the handler returns Err: the server answers with an error response
ReturnErr ==
    /\ h_pc' = "idle"
    /\ h_response' = "error"

\* an unwrap panics: the panic aborts the process, or unwinds the handler's thread
\* only
Panic ==
    /\ h_response' = "panic"
    /\ \E abort \in BOOLEAN : h_pc' = IF abort THEN "aborted" ELSE "dead"

\* let mut buffer = [0_u8; 6]; req.read_exact(&mut buffer)?
ReadExact ==
    /\ HandlerAt("read")
    /\ IF Len(h_body) < BufferSize
       THEN ReturnErr /\ UNCHANGED h_body
       ELSE /\ h_body' = SubSeq(h_body, 1, BufferSize)
            /\ h_pc' = "parse"
            /\ UNCHANGED h_response
    /\ UNCHANGED <<h_color, h_before>>
    /\ UNCHANGED <<notHandler, scanVars, ledVars>>

\* let color: Color = std::str::from_utf8(&buffer)?.try_into()?
ParseColor ==
    /\ HandlerAt("parse")
    /\ IF ~from_utf8(h_body)
       THEN ReturnErr /\ UNCHANGED h_color
       ELSE LET c == try_from(h_body)
            IN  CASE c.tag = "ok" ->
                       /\ h_color' = c.color
                       /\ h_pc' = "respond"
                       /\ UNCHANGED h_response
                  [] c.tag = "err" -> ReturnErr /\ UNCHANGED h_color
                  [] c.tag = "panic" -> Panic /\ UNCHANGED h_color
    /\ UNCHANGED <<h_body, h_before>>
    /\ UNCHANGED <<notHandler, scanVars, ledVars>>

\* let mut response = req.into_ok_response()?; response.write("Color set")?
Respond ==
    /\ HandlerAt("respond")
    /\ \E ok \in BOOLEAN :
         IF ok THEN h_response' = "Color set" /\ h_pc' = "lock_red"
               ELSE ReturnErr
    /\ UNCHANGED <<h_body, h_color, h_before>>
    /\ UNCHANGED <<notHandler, scanVars, ledVars>>

\* the handler writing the red component on every channel
HandlerDutyAllRed(color, ch) == color[1]

\* color.r / color.g / color.b as u32, for the channel written
HandlerDuty(color, ch) ==
    CASE ch = "red" -> color[1]
      [] ch = "green" -> color[2]
      [] ch = "blue" -> color[3]

\* the handler returning after the green channel
HandlerAfterNoBlue(ch) ==
    CASE ch = "red" -> "lock_green"
      [] ch = "green" -> "idle"
      [] ch = "blue" -> "idle"

\* the statement after the write of ch: green after red, blue after green, then
\* Ok(())
HandlerAfter(ch) ==
    CASE ch = "red" -> "lock_green"
      [] ch = "green" -> "lock_blue"
      [] ch = "blue" -> "idle"

\* <ch>_channel.lock().unwrap(): blocks while a guard is alive, panics when the
\* mutex is poisoned
HandlerLock(ch) ==
    /\ HandlerAt("lock_" \o ch)
    /\ holders[ch] = {}
    /\ IF ch \in poisoned
       THEN Panic /\ UNCHANGED holders
       ELSE /\ holders' = TakeGuard(holders, ch, "handler")
            /\ h_pc' = "set_" \o ch
            /\ UNCHANGED h_response
    /\ UNCHANGED <<h_body, h_color, h_before>>
    /\ UNCHANGED <<notHandler, scanVars, blue_duty, src, touched, ind_ok>>

\* .set_duty(color.<c> as u32).unwrap(): a failed set_duty panics with the guard
\* alive, which poisons the mutex; the guard is dropped at the end of the statement
\* or by the unwinding
HandlerSetDuty(ch) ==
    /\ HandlerAt("set_" \o ch)
    /\ touched' = [touched EXCEPT !["handler"] = @ \cup {ch}]
    /\ holders' = DropGuard(holders, ch, "handler")
    /\ \E ok \in BOOLEAN :
         LET v == HandlerDuty(h_color, ch)
         IN  /\ red_duty' = IF ok /\ ch = "red" THEN v ELSE red_duty
             /\ green_duty' = IF ok /\ ch = "green" THEN v ELSE green_duty
             /\ blue_duty' = IF ok /\ ch = "blue" THEN v ELSE blue_duty
             /\ src' = IF ok THEN [src EXCEPT ![ch] = "handler"] ELSE src
             /\ IF ok
                THEN /\ h_pc' = HandlerAfter(ch)
                     /\ UNCHANGED <<h_response, poisoned>>
                ELSE /\ Panic
                     /\ poisoned' = poisoned \cup {ch}
    /\ UNCHANGED <<h_body, h_color, h_before>>
    /\ UNCHANGED <<notHandler, scanLocal, ind_ok>>

HandlerSteps ==
    \/ ReadExact \/ ParseColor \/ Respond
    \/ \E ch \in Channels : HandlerLock(ch) \/ HandlerSetDuty(ch)

\* the handler serving requests with any of the bodies above
ColorNext == Receive(ColorBodies) \/ HandlerSteps

\* the handler serving requests while the indicator worker runs
LedHandlerNext == Receive(LedBodies) \/ HandlerSteps

(***************************************************************************)
(* The live scan, scan_wifi_with_resources (scan.rs 31-116).               *)
(***************************************************************************)
\* wifi.scan() calls that are counted (the loop itself goes on)
MaxScans == 3

InitialSleepMs == 2000
RestartSleepMs == 1000
ScanSleepMs == 5000

StartEv(ok) == <<"start", 0, IF ok THEN 1 ELSE 0>>

LiveAt(pc) == ProcessAlive /\ live_pc = pc

\* a call whose Err is returned by `?`
LiveTry(pc, next) ==
    /\ LiveAt(pc)
    /\ \E ok \in BOOLEAN : live_pc' = IF ok THEN next ELSE "returned_err"
    /\ UNCHANGED <<live_networks, live_scan, live_since, live_before, live_scans>>
    /\ UNCHANGED <<mainVars, radioVars, scanVars, genVars, ledVars, handlerVars>>

\* EspWifi::new(modem, sys_loop.clone(), nvs)?
EspWifiNew == LiveTry("esp_wifi_new", "wrap")

\* BlockingWifi::wrap(esp_wifi, sys_loop)?
BlockingWifiWrap == LiveTry("wrap", "set_configuration")

\* wifi.set_configuration(&wifi_config).unwrap()
SetConfiguration ==
    /\ LiveAt("set_configuration")
    /\ \E ok \in BOOLEAN : live_pc' = IF ok THEN "start" ELSE "panicked"
    /\ UNCHANGED <<live_networks, live_scan, live_since, live_before, live_scans>>
    /\ UNCHANGED <<mainVars, radioVars, scanVars, genVars, ledVars, handlerVars>>

\* wifi.start()? before the loop
WifiStart == LiveTry("start", "sleep_initial")

\* thread::sleep(2 s), then the loop is entered
InitialSleep ==
    /\ LiveAt("sleep_initial")
    /\ live_since' = Append(live_since, SleepEv(InitialSleepMs))
    /\ live_pc' = "is_started"
    /\ UNCHANGED <<live_networks, live_scan, live_before, live_scans>>
    /\ UNCHANGED <<mainVars, radioVars, scanVars, genVars, ledVars, handlerVars>>

\* wifi.is_started(): Ok(true), Ok(false) or Err
IsStartedResults == {"true", "false", "err"}

\* .unwrap_or(false)
unwrap_or_false(r) == r = "true"

\* if !wifi.is_started().unwrap_or(false) { restart }
IsStarted ==
    /\ LiveAt("is_started")
    /\ \E r \in IsStartedResults :
         live_pc' = IF unwrap_or_false(r) THEN "scan" ELSE "restart"
    /\ UNCHANGED <<live_networks, live_scan, live_since, live_before, live_scans>>
    /\ UNCHANGED <<mainVars, radioVars, scanVars, genVars, ledVars, handlerVars>>

\* wifi.start()? in the loop: its Err is returned by the function
Restart ==
    /\ LiveAt("restart")
    /\ \E ok \in BOOLEAN :
         /\ live_since' = Append(live_since, StartEv(ok))
         /\ live_pc' = IF ok THEN "sleep_restart" ELSE "returned_err"
    /\ UNCHANGED <<live_networks, live_scan, live_before, live_scans>>
    /\ UNCHANGED <<mainVars, radioVars, scanVars, genVars, ledVars, handlerVars>>

\* thread::sleep(1 s) after the restart
RestartSleep ==
    /\ LiveAt("sleep_restart")
    /\ live_since' = Append(live_since, SleepEv(RestartSleepMs))
    /\ live_pc' = "scan"
    /\ UNCHANGED <<live_networks, live_scan, live_before, live_scans>>
    /\ UNCHANGED <<mainVars, radioVars, scanVars, genVars, ledVars, handlerVars>>

\* x put into a sequence sorted by falling signal strength, behind its equals
RECURSIVE InsertBySignal(_, _)
InsertBySignal(x, q) ==
    IF q = <<>> THEN <<x>>
    ELSE IF Head(q)[2] >= x[2] THEN <<Head(q)>> \o InsertBySignal(x, Tail(q))
    ELSE <<x>> \o q

\* networks.sort_by(|a, b| b.signal_strength.cmp(&a.signal_strength)): stable,
\* strongest first
RECURSIVE SortBySignal(_)
SortBySignal(q) ==
    IF q = <<>> THEN <<>>
    ELSE InsertBySignal(q[Len(q)], SortBySignal(SubSeq(q, 1, Len(q) - 1)))

\* what wifi.scan() can return on Ok: <<ssid, signal strength>> per access point
LiveScanResults ==
    { <<>>,
      << <<"A", -70>>, <<"B", -40>> >>,
      << <<"A", -50>>, <<"", -30>>, <<"C", -50>> >> }

\* a failed scan returned by the function
AfterLiveScanErrReturns(ok) == IF ok THEN "sleep_scan" ELSE "returned_err"

\* after the match on wifi.scan(): both arms only log and fall through to the sleep
AfterLiveScan(ok) == "sleep_scan"

\* match wifi.scan() { Ok => sort and log the networks, Err => log the error }
LiveScan ==
    /\ LiveAt("scan")
    /\ \/ \E r \in LiveScanResults :
            /\ live_networks' = SortBySignal(r)
            /\ live_scan' = "ok"
            /\ live_pc' = AfterLiveScan(TRUE)
       \/ /\ live_scan' = "err"
          /\ live_pc' = AfterLiveScan(FALSE)
          /\ UNCHANGED live_networks
    /\ live_before' = live_since
    /\ live_since' = <<>>
    /\ live_scans' = IF live_scans < MaxScans THEN live_scans + 1 ELSE live_scans
    /\ UNCHANGED <<mainVars, radioVars, scanVars, genVars, ledVars, handlerVars>>

\* thread::sleep(5 s), then the next iteration
ScanSleep ==
    /\ LiveAt("sleep_scan")
    /\ live_since' = Append(live_since, SleepEv(ScanSleepMs))
    /\ live_pc' = "is_started"
    /\ UNCHANGED <<live_networks, live_scan, live_before, live_scans>>
    /\ UNCHANGED <<mainVars, radioVars, scanVars, genVars, ledVars, handlerVars>>

LiveSetupNext == EspWifiNew \/ BlockingWifiWrap \/ SetConfiguration \/ WifiStart \/ InitialSleep

LiveLoopNext == IsStarted \/ Restart \/ RestartSleep \/ LiveScan \/ ScanSleep

LiveNext == LiveSetupNext \/ LiveLoopNext

(***************************************************************************)
RadioInit(pc, tables) ==
    /\ radio_pc = pc
    /\ table \in tables
    /\ range_index = 0
    /\ start_channel = 0
    /\ end_channel = 0
    /\ channel = 0
    /\ noise_data = <<>>
    /\ init_log = <<>>
    /\ passes = 0
    /\ programmed = <<>>
    /\ gap = <<>>
    /\ fail_ch = NoChannel
    /\ pass_ok = TRUE
    /\ prev_fail = NoChannel
    /\ prev_gap = <<>>
    /\ hop = NoHop
    /\ prev_set_ok = FALSE

MainInit(pc) ==
    /\ main_pc = pc
    /\ handlers = {}

NoScan == [tag |-> "none", networks |-> <<>>]

ScanInit(pc, fns, durations, duties) ==
    /\ scan_pc = pc
    /\ scan_result = NoScan
    /\ flash_fn \in fns
    /\ duration_ms \in durations
    /\ flash_i = 0
    /\ led_args = <<0, 0>>
    /\ after_led = "none"
    /\ red_duty \in duties
    /\ green_duty \in duties
    /\ poisoned = {}
    /\ trace = <<>>

\* the worker's thread does not exist
ScanIdle == ScanInit("not_started", {"none"}, {0}, {0})

\* the three channels as created by main: duty 0, mutex free and not poisoned
LedIdle ==
    /\ blue_duty = 0
    /\ holders = [ch \in Channels |-> {}]
    /\ src = [ch \in Channels |-> NoWrite]
    /\ touched = [w \in Writers |-> {}]
    /\ ind_ok = [ch \in {"red", "green"} |-> FALSE]

\* no request is being handled
HandlerIdle ==
    /\ h_pc = "idle"
    /\ h_body = <<>>
    /\ h_color = <<>>
    /\ h_response = "none"
    /\ h_before = <<0, 0, 0>>

\* no wifi.scan() call has been made
NoLiveScan == "none"

\* scan_wifi_with_resources at position pc, nothing scanned yet
LiveInit(pc) ==
    /\ live_pc = pc
    /\ live_networks = <<>>
    /\ live_scan = NoLiveScan
    /\ live_since = <<>>
    /\ live_before = <<>>
    /\ live_scans = 0

\* scan_wifi_with_resources is not called
LiveIdle == LiveInit("not_called")

GenIdle ==
    /\ gen_length = 0
    /\ gen_timestamp = <<0, 0, 0, 0, 0, 0, 0, 0>>
    /\ gen_result = <<>>
    /\ gen_pc = "idle"

\* the program: main from its first line, no thread spawned yet
Init ==
    /\ MainInit("start")
    /\ RadioInit("not_spawned", {frequency_ranges})
    /\ ScanIdle
    /\ GenIdle
    /\ LedIdle
    /\ HandlerIdle
    /\ LiveIdle

Next == MainNext \/ RadioNext

Spec == Init /\ [][Next]_vars

\* the radio worker's thread alone, from its first line, over the code's table and
\* the one-range table
SweepInit ==
    /\ MainInit("heartbeat")
    /\ RadioInit("spi", {frequency_ranges, single_range})
    /\ ScanIdle
    /\ GenIdle
    /\ LedIdle
    /\ HandlerIdle
    /\ LiveIdle

SpecSweep == SweepInit /\ [][RadioNext]_vars

\* the same under fair scheduling of the worker's thread
SpecSweepFair == SpecSweep /\ WF_vars(RadioNext)

\* one call of generate_random_noise(length) at some clock reading
GenerateNoise ==
    /\ gen_pc = "call"
    /\ gen_result' = generate_random_noise(gen_length, gen_timestamp)
    /\ gen_pc' = "returned"
    /\ UNCHANGED <<gen_length, gen_timestamp>>
    /\ UNCHANGED <<mainVars, radioVars, scanVars, ledVars, handlerVars, liveVars>>

NoiseInit ==
    /\ MainInit("heartbeat")
    /\ RadioInit("not_spawned", {frequency_ranges})
    /\ ScanIdle
    /\ gen_length \in 0..MaxNoiseLen
    /\ gen_timestamp \in Timestamps
    /\ gen_result = <<>>
    /\ gen_pc = "call"
    /\ LedIdle
    /\ HandlerIdle
    /\ LiveIdle

SpecNoise == NoiseInit /\ [][GenerateNoise]_vars

(***************************************************************************)
(* Properties.                                                             *)
(***************************************************************************)
SweepPcs == {"range_start", "set_channel", "write", "sleep50", "advance", "sleep500"}

Last(q) == q[Len(q)]

\* the channels s, s+1, ..., s+n-1
Ascending(s, n) == [k \in 1..n |-> s + k - 1]

\* C1: range_index starts at 0, stays within 0..table_length-1, and after k
\* completed range passes equals k mod table_length, whatever calls failed.
C1_RangeIndexIsPassesModLen ==
    /\ range_index \in 0..(Len(table) - 1)
    /\ radio_pc \notin SweepPcs => range_index = 0
    /\ passes < MaxPasses => range_index = passes % Len(table)

\* six passes of the five-range table are done, the last one with a failed call
C1_Witness ==
    /\ table = frequency_ranges
    /\ passes = 6
    /\ range_index = 1
    /\ radio_pc = "sleep500"
    /\ ~pass_ok

\* what holds after a failure on a channel below end_channel: the worker is about
\* to call set_channel for the next channel, or to sleep before doing so
C2_AfterFailure ==
    /\ (fail_ch # NoChannel /\ fail_ch < end_channel) =>
          \/ radio_pc = "set_channel" /\ channel = fail_ch + 1
          \/ radio_pc = "sleep50" /\ channel = fail_ch
    /\ prev_fail # NoChannel =>
          /\ Len(programmed) >= 2
          /\ programmed[Len(programmed) - 1] = prev_fail
          /\ Last(programmed) = prev_fail + 1
    /\ radio_pc = "advance" /\ start_channel <= end_channel =>
          Last(programmed) = end_channel

\* C2: within a pass, a failure of set_channel(c) or of the write on c, c below
\* end_channel, is always followed by a set_channel(c+1) call in the same pass;
\* no failure ends the pass early or ends the worker.
C2_FailureDoesNotStopThePass ==
    /\ []C2_AfterFailure
    /\ [][(radio_pc \in SweepPcs) => (radio_pc' \in SweepPcs)]_vars
    /\ \A c \in 2..41 :
         (fail_ch = c /\ c < end_channel)
            ~> (prev_fail = c /\ Last(programmed) = c + 1)

\* set_channel(10) is called right after a failure on channel 9, in the pass of
\* range (7, 27)
C2_Witness ==
    /\ prev_fail = 9
    /\ programmed = Ascending(7, 4)
    /\ start_channel = 7
    /\ radio_pc = "write"

\* the channels programmed so far in a pass, and in a finished pass
C3_ProgrammedInOrder ==
    /\ programmed = Ascending(start_channel, Len(programmed))
    /\ radio_pc = "set_channel" => Len(programmed) = channel - start_channel
    /\ radio_pc \in {"write", "sleep50"} => Last(programmed) = channel
    /\ (radio_pc \in {"advance", "sleep500"} \/ (radio_pc = "range_start" /\ passes > 0)) =>
          programmed = Ascending(start_channel, end_channel - start_channel + 1)
    /\ radio_pc \in SweepPcs \ {"range_start"} =>
          /\ <<start_channel, end_channel>> \in {table[k] : k \in 1..Len(table)}
          /\ radio_pc # "sleep500" => <<start_channel, end_channel>> = table[range_index + 1]

\* the one-range scenario: channels 2..22, 50 ms between them when no call
\* fails, 500 ms before the next pass, which is the same range again
C3_SingleRangeScenario ==
    table = single_range =>
       /\ range_index = 0
       /\ radio_pc \in SweepPcs \ {"range_start"} =>
             start_channel = 2 /\ end_channel = 22
       /\ (radio_pc = "range_start" /\ passes > 0) =>
             /\ programmed = Ascending(2, 21)
             /\ Last(gap) = RangeSleepMs
             /\ pass_ok => gap = <<HopSleepMs, RangeSleepMs>>
       /\ (pass_ok /\ Len(programmed) >= 2) => prev_gap = <<HopSleepMs>>
       /\ (Len(programmed) = 1 /\ passes > 0) => Last(prev_gap) = RangeSleepMs

\* C3: each pass calls set_channel for exactly start_channel..end_channel, in
\* ascending order, each once; with the table [(2,22)] and no failing call the
\* channels are 2..22, then a 500 ms sleep, then 2..22 again, forever.
C3_EachChannelOnceInOrder ==
    /\ [](C3_ProgrammedInOrder /\ C3_SingleRangeScenario)
    /\ (radio_pc \in SweepPcs) ~> (radio_pc = "range_start" /\ passes > 0)

\* the second pass of the one-range table has ended without a failed call
C3_Witness ==
    /\ table = single_range
    /\ radio_pc = "range_start"
    /\ passes = 2
    /\ pass_ok
    /\ programmed = Ascending(2, 21)
    /\ gap = <<50, 500>>

\* the initialization calls, in the code's order, all successful
InitOk ==
    << <<"SpiDriver::new", "ok">>, <<"SpiDeviceDriver::new", "ok">>,
       <<"PinDriver::output", "ok">>, <<"Nrf24l01::new", "ok">>,
       <<"is_connected", "ok_true">>, <<"open_writing_pipe", "ok">>,
       <<"stop_listening", "ok">> >>

InitSucceeded(entry) == entry[2] \in {"ok", "ok_true"}

\* the worker sweeps only after the whole initialization succeeded, in order; a
\* worker that ended made each call at most once, its last one failed, and it
\* never swept
C7_SweepOnlyAfterInit ==
    /\ Len(init_log) <= Len(InitOk)
    /\ \A k \in 1..Len(init_log) : init_log[k][1] = InitOk[k][1]
    /\ (radio_pc \in SweepPcs \/ programmed # <<>> \/ noise_data # <<>>) =>
          init_log = InitOk
    /\ radio_pc = "terminated" <=>
          (init_log # <<>> /\ ~InitSucceeded(Last(init_log)))
    /\ radio_pc = "terminated" =>
          /\ \A k \in 1..(Len(init_log) - 1) : init_log[k] = InitOk[k]
          /\ programmed = <<>>
          /\ noise_data = <<>>
          /\ passes = 0

\* C7: set_channel and write are called only after transceiver creation,
\* is_connected = Ok(true), open_writing_pipe and stop_listening succeeded, in
\* that order; any failure (Ok(false) and Err of is_connected included) ends the
\* worker, which never sweeps and never initializes again.
C7_InitFailureIsFatalToWorker ==
    /\ []C7_SweepOnlyAfterInit
    /\ [][(radio_pc = "terminated") => UNCHANGED radioVars]_vars

\* the worker has ended on is_connected() = Ok(false)
C7_Witness ==
    /\ radio_pc = "terminated"
    /\ Len(init_log) = 5
    /\ Last(init_log) = <<"is_connected", "ok_false">>

\* the scan indicator worker's thread exists
ScanWorkerStarted == scan_pc # "not_started"

\* C8: a fatal start-up failure of the radio worker ends only that worker: main
\* still registers the HTTP handlers and reaches its heartbeat loop, and the scan
\* indicator worker keeps running.
C8_RadioFailureEndsOnlyRadioWorker ==
    (radio_pc = "terminated" /\ main_pc = "heartbeat") =>
        /\ handlers = {"GET /", "POST /color"}
        /\ ScanWorkerStarted

\* C9: in every run that reaches main's heartbeat loop, both the radio sweep
\* worker and the scan indicator worker have been started.
C9_BothWorkersStartedBeforeHeartbeat ==
    main_pc = "heartbeat" =>
        /\ radio_pc # "not_spawned"
        /\ ScanWorkerStarted

\* C10: generate_random_noise(n) returns exactly n bytes, each in 0..255, and
\* the empty sequence for n = 0, for every seed.
C10_NoiseHasLengthN ==
    gen_pc = "returned" =>
        /\ Len(gen_result) = gen_length
        /\ \A k \in 1..Len(gen_result) : gen_result[k] \in 0..255
        /\ gen_length = 0 => gen_result = <<>>

\* five bytes were asked for at a clock reading of 2^64 - 1 and five came back
C10_Witness ==
    /\ gen_pc = "returned"
    /\ gen_length = 5
    /\ gen_timestamp = <<255, 255, 255, 255, 255, 255, 255, 255>>
    /\ gen_result = <<57, 57, 134, 94, 9>>

(***************************************************************************)
(* Specifications of the indicator worker and of one flash helper call.    *)
(***************************************************************************)
\* largest duration_ms / 50 handed to a flash helper by the flash specification
MaxDurationSteps == 12

FlashDurations == {50 * k : k \in 0..MaxDurationSteps} \cup {999, 1000, 2999, 3000, 10000}

FlashFns == {"flash_green", "flash_red", "flash_red_waiting"}

\* scan_networks_continuously called on its own thread, the channels off
IndicatorInit ==
    /\ MainInit("heartbeat")
    /\ RadioInit("not_spawned", {frequency_ranges})
    /\ ScanInit("scan", {"none"}, {0}, {0})
    /\ GenIdle
    /\ LedIdle
    /\ HandlerIdle
    /\ LiveIdle

\* the worker as written: the scan never fails
SpecIndicator == IndicatorInit /\ [][IndicatorNext]_vars

\* the worker over a scan primitive that may fail, its thread scheduled fairly
SpecIndicatorAnyScan ==
    IndicatorInit /\ [][IndicatorAnyScanNext]_vars /\ WF_vars(IndicatorAnyScanNext)

\* one call of one flash helper, whatever the channels showed before
FlashInit ==
    /\ MainInit("heartbeat")
    /\ RadioInit("not_spawned", {frequency_ranges})
    /\ ScanInit("flash_loop", FlashFns, FlashDurations, {0, 255})
    /\ GenIdle
    /\ LedIdle
    /\ HandlerIdle
    /\ LiveIdle

SpecFlash == FlashInit /\ [][FlashNext]_vars

(***************************************************************************)
(* Specifications of the POST /color handler, alone and beside the         *)
(* indicator worker.                                                       *)
(***************************************************************************)
\* main has registered both routes and sits in its heartbeat loop
ServingInit ==
    /\ main_pc = "heartbeat"
    /\ handlers = {"GET /", "POST /color"}

\* the server answering POST /color requests, one after the other
ColorInit ==
    /\ ServingInit
    /\ RadioInit("not_spawned", {frequency_ranges})
    /\ ScanIdle
    /\ GenIdle
    /\ LedIdle
    /\ HandlerIdle
    /\ LiveIdle

SpecColor == ColorInit /\ [][ColorNext]_vars

\* scan_networks_continuously running on its own thread with the red and green
\* channels, while the server answers POST /color requests
LedSharedInit ==
    /\ ServingInit
    /\ RadioInit("not_spawned", {frequency_ranges})
    /\ ScanInit("scan", {"none"}, {0}, {0})
    /\ GenIdle
    /\ LedIdle
    /\ HandlerIdle
    /\ LiveIdle

SpecLed == LedSharedInit /\ [][IndicatorNext \/ LedHandlerNext]_vars

(***************************************************************************)
(* Specification of the live scan.                                         *)
(***************************************************************************)
\* scan_wifi_with_resources called on a thread of its own
LiveScanInit ==
    /\ MainInit("heartbeat")
    /\ RadioInit("not_spawned", {frequency_ranges})
    /\ ScanIdle
    /\ GenIdle
    /\ LedIdle
    /\ HandlerIdle
    /\ LiveInit("esp_wifi_new")

SpecLiveScan == LiveScanInit /\ [][LiveNext]_vars

\* the same with the function's thread scheduled fairly and every call returning
SpecLiveScanFair == SpecLiveScan /\ WF_vars(LiveNext)

(***************************************************************************)
(* Properties of the flash helpers and of the indicator worker.            *)
(***************************************************************************)
\* n toggle steps at interval ms, the even ones showing colour c and the odd ones
\* off, each followed by a sleep, and the closing write of (0, 0)
Pattern(c, n, ms) ==
    [k \in 1..(2 * n + 1) |->
        IF k = 2 * n + 1 THEN SetEv(<<0, 0>>)
        ELSE IF k % 2 = 0 THEN SleepEv(ms)
        ELSE IF ((k - 1) \div 2) % 2 = 0 THEN SetEv(c) ELSE SetEv(<<0, 0>>)]

IsPrefix(p, q) == Len(p) <= Len(q) /\ p = SubSeq(q, 1, Len(p))

\* the pattern each helper is to show for duration d
HelperPattern(fn, d) ==
    CASE fn = "flash_green" -> Pattern(<<0, 255>>, d \div 100, 100)
      [] fn = "flash_red" -> Pattern(<<255, 0>>, d \div 100, 100)
      [] fn = "flash_red_waiting" -> Pattern(<<255, 0>>, d \div 1000, 1000)

\* C4: a flash helper called with duration D and interval I (100, 100, 1000 ms)
\* makes exactly floor(D/I) toggle steps, step i writing the active colour at
\* 255 for even i and 0 for odd i with the other colour at 0, each step followed
\* by a sleep of I, and its last write before returning is (0, 0).
C4_FlashHelperPattern ==
    /\ IsPrefix(trace, HelperPattern(flash_fn, duration_ms))
    /\ scan_pc = "flash_return" =>
          /\ trace = HelperPattern(flash_fn, duration_ms)
          /\ Last(trace) = SetEv(<<0, 0>>)
          /\ led_args = <<0, 0>>
          /\ flash_i = duration_ms \div (IF flash_fn = "flash_red_waiting" THEN 1000 ELSE 100)

\* flash_red_waiting(2999) has returned after its two steps
C4_Witness ==
    /\ scan_pc = "flash_return"
    /\ flash_fn = "flash_red_waiting"
    /\ duration_ms = 2999
    /\ flash_i = 2
    /\ Len(trace) = 5

\* the calls of a whole iteration of the worker after a failed scan
FailureCycle == Pattern(<<255, 0>>, 5, 100) \o Pattern(<<255, 0>>, 10, 1000)

\* the calls of a whole iteration of the worker after a successful scan
SuccessCycle == Pattern(<<0, 255>>, 5, 100) \o Pattern(<<255, 0>>, 10, 1000)

IndicatorPcs ==
    {"scan", "flash_loop", "led_red", "red_locked", "led_green", "green_locked",
     "flash_sleep", "flash_return"}

RECURSIVE SleptMs(_)
SleptMs(q) ==
    IF q = <<>> THEN 0
    ELSE (IF q[1][1] = "sleep" THEN q[1][2] ELSE 0) + SleptMs(Tail(q))

C5_AfterFailedScan ==
    /\ scan_pc \in IndicatorPcs
    /\ scan_result.tag = "err" =>
          /\ IsPrefix(trace, FailureCycle)
          /\ scan_pc = "scan" => trace = FailureCycle
          /\ flash_fn = "flash_green" => scan_pc = "scan"
          /\ flash_fn = "flash_red" => Len(trace) <= 11
          /\ flash_fn = "flash_red_waiting" => Len(trace) >= 11
          /\ \A k \in 1..Len(trace) : trace[k][1] = "set" => trace[k][3] = 0

\* C5: a failed scan never ends the indicator worker's loop: it is followed by
\* the red failure flash (5 toggles at 100 ms, green never non-zero), then the
\* 10 s red waiting pattern (10 toggles at 1 s), then another scan, forever.
C5_FailedScanIsNotFatal ==
    /\ []C5_AfterFailedScan
    /\ (scan_result.tag = "err" /\ trace = <<>>)
          ~> (scan_result.tag = "err" /\ scan_pc = "scan" /\ trace = FailureCycle)
    /\ (scan_pc = "scan") ~> (scan_pc = "flash_loop" /\ trace = <<>>)

\* the worker is back at the scan after the whole cycle of a failed scan
C5_Witness ==
    /\ scan_pc = "scan"
    /\ scan_result.tag = "err"
    /\ trace = FailureCycle
    /\ Len(trace) = 32

C6_AfterSuccessfulScan ==
    /\ scan_result.tag = "ok" =>
          /\ Len(scan_result.networks) = 3
          /\ IsPrefix(trace, SuccessCycle)
          /\ scan_pc = "scan" => trace = SuccessCycle
          /\ flash_fn = "flash_red" => scan_pc = "scan"
          /\ flash_fn = "flash_green" => Len(trace) <= 11
          /\ flash_fn = "flash_red_waiting" => Len(trace) >= 11
    /\ (scan_pc = "scan" /\ scan_result.tag # "none") => SleptMs(trace) = 500 + 10000

\* C6: every successful scan is followed by the green success flash (5 toggles
\* at 100 ms, red never non-zero, ending off), then by the 10 s red waiting
\* pattern (10 toggles at 1 s, green never non-zero, ending off), and only then
\* by the next scan: scans are 500 ms + 10 s of sleeping apart whatever the
\* scan's outcome.
C6_SuccessFlashThenWaiting ==
    /\ []C6_AfterSuccessfulScan
    /\ (scan_result.tag = "ok" /\ trace = <<>>)
          ~> (scan_result.tag = "ok" /\ scan_pc = "scan" /\ trace = SuccessCycle)

\* the worker is back at the scan after the whole cycle of a successful scan
C6_Witness ==
    /\ scan_pc = "scan"
    /\ scan_result.tag = "ok"
    /\ trace = SuccessCycle
    /\ SleptMs(trace) = 10500

\* ---- the pauses of the sweep ----

\* C14 as stated: 50 ms are slept between any two consecutive set_channel calls of
\* a pass, whatever the earlier calls returned, and 50 ms then 500 ms between the
\* last set_channel of a pass and the first of the next.
C14_SleepsWhateverTheOutcome ==
    /\ Len(programmed) >= 2 => prev_gap = <<HopSleepMs>>
    /\ (Len(programmed) = 1 /\ passes > 0) => prev_gap = <<HopSleepMs, RangeSleepMs>>

\* C14: between two consecutive set_channel calls of a pass the worker sleeps 50 ms
\* exactly when the earlier set_channel succeeded (whatever its write returned) and
\* does not sleep at all when it failed; between the last set_channel of a pass and
\* the first of the next it sleeps 500 ms, preceded by the 50 ms only when that last
\* set_channel succeeded.
C14_SleepsAfterSuccessfulSetChannel ==
    /\ Len(programmed) >= 2 =>
          prev_gap = IF prev_set_ok THEN <<HopSleepMs>> ELSE <<>>
    /\ (Len(programmed) = 1 /\ passes > 0) =>
          prev_gap = IF prev_set_ok THEN <<HopSleepMs, RangeSleepMs>>
                                    ELSE <<RangeSleepMs>>

\* set_channel(4) is called with no sleep since the failed set_channel(3)
C14_Witness ==
    /\ programmed = Ascending(2, 3)
    /\ prev_fail = 3
    /\ ~prev_set_ok
    /\ prev_gap = <<>>

\* ---- one payload per channel ----

\* C15: a channel whose set_channel failed gets no payload and no write; a channel
\* whose set_channel succeeded gets, once its write call is made, exactly one
\* payload of 32 bytes and exactly one write, of that very payload, whether the
\* write succeeds or fails.
C15_OnePayloadOneWrite ==
    /\ ~hop.set_ok => hop = NoHop
    /\ (hop.set_ok /\ radio_pc = "write") => (hop.gens = 0 /\ hop.writes = 0)
    /\ (hop.set_ok /\ radio_pc # "write") =>
          /\ hop.gens = 1
          /\ hop.writes = 1
          /\ hop.written = noise_data
          /\ Len(hop.written) = PayloadSize

\* the write on channel 5 failed: one payload, one write, and the worker sleeps
C15_Witness ==
    /\ radio_pc = "sleep50"
    /\ channel = 5
    /\ fail_ch = 5
    /\ hop.set_ok
    /\ hop.writes = 1
    /\ Len(hop.written) = PayloadSize

\* ---- the noise generator's recurrence ----

\* (s div 2^16) mod 256 is decided by s mod 2^24, and (s * a + c) mod 2^24 by
\* s mod 2^24: the recurrence of the claim, carried on the low 24 bits of the seed
\* and multiplied in 12-bit halves
Two12 == 2 ^ 12
Two24 == 2 ^ 24

Low24(ts) == ts[1] + ts[2] * (2 ^ 8) + ts[3] * (2 ^ 16)

RecurrenceStep(t) ==
    LET k  == LcgMultiplier % Two24
        kh == k \div Two12
        kl == k % Two12
        th == t \div Two12
        tl == t % Two12
    IN  (tl * kl + ((th * kl + tl * kh) % Two12) * Two12 + LcgIncrement) % Two24

RECURSIVE RecurrenceSeed(_, _)
RecurrenceSeed(i, t0) == IF i = 0 THEN t0 ELSE RecurrenceStep(RecurrenceSeed(i - 1, t0))

\* C16: with s_0 the seed and s_i = (s_(i-1) * 1103515245 + 12345) mod 2^64, byte i
\* of generate_random_noise's result is (s_i div 2^16) mod 256, for i = 1..n; the
\* result is therefore a function of the seed and the length alone.
C16_BytesFollowTheRecurrence ==
    gen_pc = "returned" =>
        /\ Len(gen_result) = gen_length
        /\ \A i \in 1..gen_length :
              gen_result[i] = RecurrenceSeed(i, Low24(gen_timestamp)) \div (2 ^ 16)

\* six bytes generated from the clock reading 1762246800000000000
C16_Witness ==
    /\ gen_pc = "returned"
    /\ gen_length = 6
    /\ gen_timestamp = <<0, 160, 145, 184, 32, 194, 116, 24>>
    /\ gen_result = <<193, 214, 122, 112, 93, 35>>

\* ---- the sweep never ends ----

\* the order in which the claim has the ranges swept
C17_Cycle == << <<2, 22>>, <<7, 27>>, <<12, 32>>, <<17, 37>>, <<22, 42>> >>

\* a pass begins: the range taken is the first of the cycle in the first pass, and
\* afterwards the successor in the cycle of the range of the pass before
C17_NextInCycle ==
    (table = frequency_ranges /\ radio_pc = "range_start" /\ radio_pc' # "range_start") =>
        IF passes = 0
        THEN <<start_channel', end_channel'>> = C17_Cycle[1]
        ELSE \E k \in 1..Len(C17_Cycle) :
                /\ <<start_channel, end_channel>> = C17_Cycle[k]
                /\ <<start_channel', end_channel'>> = C17_Cycle[(k % Len(C17_Cycle)) + 1]

\* the pass of the k-th range of the cycle is finished with every channel of the
\* range attempted
C17_PassDone(k) ==
    /\ radio_pc = "advance"
    /\ <<start_channel, end_channel>> = C17_Cycle[k]
    /\ programmed = Ascending(start_channel, end_channel - start_channel + 1)

\* C17: once in the sweep loop the worker stays in it; the ranges are taken in the
\* cyclic order (2,22),(7,27),(12,32),(17,37),(22,42),(2,22),...; every range has
\* start_channel <= end_channel; and under fair scheduling, from any point of the
\* sweep, every range is again passed with each of its channels attempted,
\* whichever set_channel or write calls fail.
C17_SweepsForever ==
    /\ [][(radio_pc \in SweepPcs) => (radio_pc' \in SweepPcs)]_vars
    /\ [][C17_NextInCycle]_vars
    /\ [](\A r \in 1..Len(table) : table[r][1] <= table[r][2])
    /\ []((radio_pc \in SweepPcs \ {"range_start"}) => start_channel <= end_channel)
    /\ \A k \in 1..Len(C17_Cycle) :
         (table = frequency_ranges /\ radio_pc \in SweepPcs) ~> C17_PassDone(k)

\* the cycle has wrapped: the sixth pass, again over (2, 22), is finished with a
\* failed call in it
C17_Witness ==
    /\ table = frequency_ranges
    /\ passes = 5
    /\ C17_PassDone(1)
    /\ ~pass_ok

\* ---- the placeholder scan ----

\* C19: in the worker as written every scan returns the same three placeholder
\* networks, every iteration takes the success branch, flash_red is never called,
\* and set_led_color is called with red non-zero only by flash_red_waiting, in
\* the 10 s waiting pattern.
C19_OnlyTheSuccessBranch ==
    /\ scan_result.tag \in {"none", "ok"}
    /\ scan_result.tag = "none" => (scan_pc = "scan" /\ trace = <<>>)
    /\ scan_result.tag = "ok" =>
          scan_result.networks =
             << <<"Network-1", -45>>, <<"Network-2", -67>>, <<"Wokwi-GUEST", -30>> >>
    /\ flash_fn \in {"none", "flash_green", "flash_red_waiting"}
    /\ led_args[1] # 0 => (flash_fn = "flash_red_waiting" /\ duration_ms = WaitingMs)
    /\ \A k \in 1..Len(trace) :
          (trace[k][1] = "set" /\ trace[k][2] # 0) => k > Len(Pattern(<<0, 255>>, 5, 100))
    /\ IsPrefix(trace, SuccessCycle)

\* the waiting pattern has red on, after the green flash of a successful scan
C19_Witness ==
    /\ scan_result.tag = "ok"
    /\ flash_fn = "flash_red_waiting"
    /\ led_args = <<255, 0>>
    /\ scan_pc = "flash_sleep"
    /\ flash_i = 2

\* ---- the channel locks ----

HeldBy(w) == {ch \in Channels : w \in holders[ch]}

\* the writer is at a lock() call on a channel whose guard is alive
Blocked(w) ==
    IF w = "indicator"
    THEN \/ scan_pc = "led_red" /\ holders["red"] # {}
         \/ scan_pc = "led_green" /\ holders["green"] # {}
    ELSE \E ch \in Channels : h_pc = "lock_" \o ch /\ holders[ch] # {}

\* C12: a channel lock is held exactly while its holder is at the one set_duty
\* call made under it, so no writer holds two locks, asks for a lock while holding
\* one, or sleeps while holding one; a channel has at most one holder; and the two
\* writers are never both waiting for a lock.
C12_LockHeldForOneSetDuty ==
    /\ HeldBy("indicator") =
          CASE scan_pc = "red_locked" -> {"red"}
            [] scan_pc = "green_locked" -> {"green"}
            [] OTHER -> {}
    /\ HeldBy("handler") = {ch \in Channels : h_pc = "set_" \o ch}
    /\ \A w \in Writers : Cardinality(HeldBy(w)) <= 1
    /\ \A ch \in Channels : Cardinality(holders[ch]) <= 1
    /\ \A w \in Writers : Blocked(w) => HeldBy(w) = {}
    /\ ~(Blocked("indicator") /\ Blocked("handler"))
    /\ (ProcessAlive /\ Blocked("indicator")) => ENABLED (\E ch \in Channels : HandlerSetDuty(ch))
    /\ (ProcessAlive /\ Blocked("handler")) => ENABLED (SetRedDuty \/ SetGreenDuty)

\* the indicator worker waits for the red lock while the handler is inside the
\* red channel's critical section
C12_Witness ==
    /\ scan_pc = "led_red"
    /\ holders["red"] = {"handler"}
    /\ h_pc = "set_red"
    /\ Blocked("indicator")

\* ---- who writes which channel ----

\* a request has been answered "Color set" and its handler has returned Ok
RequestServed == h_pc = "idle" /\ h_response = "Color set"

\* the worker is back at the scan after a whole cycle, no mutex poisoned
CycleDone == scan_pc = "scan" /\ scan_result.tag # "none" /\ poisoned = {}

\* C18 as stated: each of the two writers calls set_duty on the red, the green and
\* the blue channel.
C18_BothWriteAllThree ==
    /\ RequestServed => touched["handler"] = Channels
    /\ CycleDone => touched["indicator"] = Channels

\* C18: the handler of a served request has called set_duty on the red, the green
\* and the blue channel; the indicator worker calls set_duty on the red and the
\* green channel only, and never writes the blue one.
C18_HandlerThreeIndicatorTwo ==
    /\ RequestServed => touched["handler"] = Channels
    /\ CycleDone => touched["indicator"] = {"red", "green"}
    /\ "blue" \notin touched["indicator"]
    /\ src["blue"] \in {NoWrite, "handler"}
    /\ src["blue"] = NoWrite => blue_duty = 0

\* a request has been served and a cycle of the worker is over: the handler has
\* written three channels, the worker two
C18_Witness ==
    /\ RequestServed
    /\ CycleDone
    /\ touched["handler"] = Channels
    /\ touched["indicator"] = {"red", "green"}
    /\ src["blue"] = "handler"

\* ---- the red/green pair ----

\* neither writer is between its red write and its green write
Quiescent ==
    /\ scan_pc \notin {"led_green", "green_locked"}
    /\ h_pc \notin {"lock_green", "set_green"}

\* the <<red, green>> pairs set_led_color is called with
IndicatorPairs == {<<0, 0>>, <<255, 0>>, <<0, 255>>}

\* the <<r, g>> of the requests sent
RequestPairs == { <<try_from(b).color[1], try_from(b).color[2]>> : b \in LedBodies }

OrangeColor == <<255, 128, 0>>

HexDigits == (48..57) \cup (65..70) \cup (97..102)

IsHex6(body) == Len(body) = 6 /\ \A k \in 1..6 : body[k] \in HexDigits

HexValue(b) == IF b <= 57 THEN b - 48 ELSE IF b <= 70 THEN b - 55 ELSE b - 87

\* the byte written as the two hex digits at k, k + 1
HexPair(body, k) == HexValue(body[k]) * 16 + HexValue(body[k + 1])

\* C13: a request whose 6-byte body is 6 ASCII hex digits, once served, has set
\* red, green and blue to the three decoded bytes; a request with any other
\* 6-byte body is answered with an error response, without a panic and without
\* being accepted, and the three duties are as they were when it arrived.
C13_HexAcceptedOthersRejected ==
    /\ (h_pc = "idle" /\ h_response = "Color set" /\ IsHex6(h_body)) =>
          <<red_duty, green_duty, blue_duty>> =
             <<HexPair(h_body, 1), HexPair(h_body, 3), HexPair(h_body, 5)>>
    /\ (Len(h_body) = 6 /\ ~IsHex6(h_body) /\ h_pc \notin {"read", "parse"}) =>
          /\ h_pc = "idle"
          /\ h_response = "error"
          /\ <<red_duty, green_duty, blue_duty>> = h_before

\* the body "+f+f+f" has been accepted and written as (15, 15, 15)
C13_PlusSignsAccepted ==
    /\ h_body = BodyPlusSigns
    /\ h_pc = "idle"
    /\ h_response = "Color set"
    /\ <<red_duty, green_duty, blue_duty>> = <<15, 15, 15>>

\* the body "a", U+00E9, "bcd" has made the handler panic
C13_TwoByteCharPanics ==
    /\ h_body = BodyTwoByteChar
    /\ h_response = "panic"
    /\ h_color = <<>>

\* ---- the live scan loop ----

LiveLoopPcs == {"is_started", "restart", "sleep_restart", "scan", "sleep_scan"}

\* what lies between two wifi.scan() calls: the 5 s sleep, then possibly a
\* successful restart and its 1 s sleep
LiveBetweenScans ==
    { <<SleepEv(5000)>>, <<SleepEv(5000), StartEv(TRUE), SleepEv(1000)>> }

\* what lies before the first wifi.scan() call
LiveBeforeFirstScan ==
    { <<SleepEv(2000)>>, <<SleepEv(2000), StartEv(TRUE), SleepEv(1000)>> }

\* the calls and sleeps recorded before each wifi.scan() call, and before a return
C21_BetweenScans ==
    /\ live_scans = 1 => live_before \in LiveBeforeFirstScan
    /\ live_scans >= 2 => live_before \in LiveBetweenScans
    /\ live_pc = "scan" =>
          live_since \in (IF live_scans = 0 THEN LiveBeforeFirstScan ELSE LiveBetweenScans)
    /\ live_pc = "returned_err" /\ live_since # <<>> => Last(live_since) = StartEv(FALSE)

\* C21: in the loop of scan_wifi_with_resources every wifi.scan() call, Ok or Err,
\* is followed by the 5 s sleep and, the thread being scheduled, by another
\* wifi.scan() call unless a restart fails; the loop is left only by returning the
\* error of a failed wifi.start() made because WiFi was found not started; and a
\* successful restart is followed by a 1 s sleep before the scan.
C21_FailedScanDoesNotEndTheLoop ==
    /\ []C21_BetweenScans
    /\ [][(live_pc = "scan") => (live_pc' = "sleep_scan")]_vars
    /\ [][(live_pc \in LiveLoopPcs /\ live_pc' \notin LiveLoopPcs) =>
             (/\ live_pc = "restart"
              /\ live_pc' = "returned_err"
              /\ Last(live_since') = StartEv(FALSE))]_vars
    /\ [][(live_pc = "restart" /\ live_pc' # "returned_err") =>
             (live_pc' = "sleep_restart" /\ Last(live_since') = StartEv(TRUE))]_vars
    /\ \A r \in {"ok", "err"} :
         (live_pc = "sleep_scan" /\ live_scan = r)
            ~> (live_pc \in {"scan", "returned_err"} /\ live_scan = r)

\* the scan before failed; the 5 s sleep, a restart and its 1 s sleep later the
\* function is about to scan again
C21_Witness ==
    /\ live_pc = "scan"
    /\ live_scan = "err"
    /\ live_scans = 2
    /\ live_since = <<SleepEv(5000), StartEv(TRUE), SleepEv(1000)>>

====
